---- MODULE Spec2Model ----
(***************************************************************************)
(* StudentResourceHub: the connection manager of admin.py, the schema      *)
(* bootstrap and sign-up of db.py / main.py, the two-phase upload and      *)
(* download and the review flow of resource.py, and the study groups of    *)
(* study_groups.py, as state machines over the relational store.           *)
(***************************************************************************)
EXTENDS Integers, Sequences, FiniteSets, TLC

(***************************************************************************)
(* Bounds                                                                  *)
(***************************************************************************)
MaxRetries == 5

\* def get_db_connection(timeout=30.0, retries=5)
DefaultRetries == 5

(***************************************************************************)
(* Connection manager state (admin.py get_db_connection)                   *)
(***************************************************************************)
VARIABLES
    retries,     \* the retries argument of get_db_connection
    cm_pc,       \* "loop" | "yielded" | "returned" | "raised"
    attempt,     \* loop variable of `for attempt in range(retries)`
    conn,        \* local `conn`: 0 is None, otherwise a handle id
    closes,      \* closes[h]: number of conn.close() calls made on handle h
    slept,       \* sequence of the wait_time values passed to time.sleep
    outcomes,    \* what each acquisition attempt did, in order
    handed,      \* <<attempt number, total backoff so far>> of each yield
    thrown,      \* TRUE once the caller's block has thrown into the generator
    suspended,   \* TRUE while the generator is parked at `yield conn`
    error        \* what the caller of the with-statement observes

cmvars == <<retries, cm_pc, attempt, conn, closes, slept, outcomes, handed,
            thrown, suspended, error>>

(***************************************************************************)
(* The relational store (db.py init_db), the file system and the sessions  *)
(***************************************************************************)
VARIABLES
    users,             \* users table: username -> [password, role, is_verified]
    categories,        \* committed categories.name values
    resources,         \* resources table, resources[i] has id i
    reviews,           \* reviews table (no uniqueness constraint beyond id)
    download_history,  \* download_history table
    user_interactions, \* user_interactions table
    files,             \* paths present under resources/ and videos/
    delivered,         \* downloaded_<name> files written by download_resource
    menu,              \* menu[s]: "main" | "user" | "admin"
    user,              \* user[s]: username the session is logged in as
    pc,                \* pc[s]: position inside the running operation
    loc,               \* loc[s]: local variables of the running operation
    result,            \* result[s]: how the session's last operation ended
    next_upload,       \* number of upload_resource calls that got past line 17
    copy_failed,       \* uploads whose shutil.copy2 raised
    leaked             \* leaked[s]: connections the process of s opened and
                       \* dropped without close(), not yet finalised

VARIABLES
    study_groups,      \* study_groups table, study_groups[i] has id i
    group_members,     \* group_members table (primary key group_id, member)
    schema,            \* tables and indexes of resources.db, in creation order
    boot_runs,         \* number of init_db runs that committed
    process            \* process[s]: "start" | "running" | "exit0" | "exit1"

storevars == <<users, categories, resources, reviews, download_history,
               user_interactions, files, delivered, study_groups,
               group_members, schema, boot_runs>>
sessvars == <<menu, user, pc, loc, result, next_upload, copy_failed, process,
              leaked>>

vars == <<cmvars, storevars, sessvars>>

Sessions == {"s1", "s2"}

\* Failure classes of an acquisition attempt or of the caller's block.
\*   locked      sqlite3.OperationalError whose text has "database is locked"
\*   operational any other sqlite3.OperationalError
\*   unexpected  any other Exception
FailureKinds == {"locked", "operational", "unexpected"}

\* sqlite3.connect raised (no new handle), or a PRAGMA raised on the new handle
OpenOutcomes == {<<"ok", "none">>} \cup {<<"connect", k>> : k \in FailureKinds}
                       \cup {<<"pragma", k>> : k \in FailureKinds}

RECURSIVE SumSeq(_)
SumSeq(s) == IF s = <<>> THEN 0 ELSE Head(s) + SumSeq(Tail(s))

\* wait_time = (attempt + 1) * 2
wait_time_off_by_one(a) == a * 2
wait_time(a) == (a + 1) * 2

\* every sqlite3.OperationalError is taken for a lock
is_locked_any_operational(kind) == kind \in {"locked", "operational"}
\* isinstance(e, sqlite3.OperationalError) and
\* "database is locked" in str(e).lower()
is_locked(kind) == kind = "locked"

\* "database is locked" in str(e).lower() and attempt < retries - 1
will_retry_no_limit(kind, a, r) == kind = "locked"
will_retry(kind, a, r) == is_locked(kind) /\ a < r - 1

\* conn.close() guarded by `if conn:`
close_handle(cl, h) == IF h = 0 THEN cl ELSE [cl EXCEPT ![h] = @ + 1]

\* lines 31-35 then `continue` through the finally of lines 44-49
retry_closes(cl, h) == close_handle(close_handle(cl, h), h)

\* The except / finally part of one loop iteration, for an exception of class
\* `kind` raised while local conn is h and the handle table is cl.
Handler(kind, h, cl, oc) ==
    IF will_retry(kind, attempt, retries)
    THEN /\ closes' = retry_closes(cl, h)
         /\ slept' = Append(slept, wait_time(attempt))
         /\ attempt' = attempt + 1
         /\ outcomes' = oc
         /\ suspended' = FALSE
         /\ IF attempt + 1 < retries
            THEN /\ cm_pc' = "loop"
                 /\ error' = error
            ELSE \* range(retries) is exhausted: the generator ends
                 /\ cm_pc' = IF thrown' THEN "returned" ELSE "raised"
                 /\ error' = IF thrown' THEN "suppressed" ELSE "generator didn't yield"
    ELSE /\ closes' = close_handle(cl, h)
         /\ slept' = slept
         /\ attempt' = attempt
         /\ outcomes' = oc
         /\ suspended' = FALSE
         /\ cm_pc' = "raised"
         /\ error' = kind

\* One iteration of the for loop up to the yield (lines 18-25), with the
\* except/finally handling when the open or a PRAGMA raises.
AttemptOpen(o) ==
    /\ cm_pc = "loop"
    /\ attempt < retries
    /\ thrown' = thrown
    /\ retries' = retries
    /\ UNCHANGED <<storevars, sessvars>>
    /\ handed' = IF o[1] = "ok" /\ ~thrown
                 THEN Append(handed, <<attempt + 1, SumSeq(slept)>>)
                 ELSE handed
    /\ IF o[1] = "ok"
       THEN /\ conn' = Len(closes) + 1
            /\ closes' = Append(closes, 0)
            /\ outcomes' = Append(outcomes, "ok")
            /\ suspended' = TRUE
            /\ UNCHANGED <<attempt, slept>>
            /\ IF thrown
               THEN \* second yield inside gen.throw(): contextlib raises
                    /\ cm_pc' = "raised"
                    /\ error' = "generator didn't stop after throw()"
               ELSE /\ cm_pc' = "yielded"
                    /\ error' = error
       ELSE IF o[1] = "connect"
       THEN /\ conn' = conn
            /\ Handler(o[2], conn, closes, Append(outcomes, o[2]))
       ELSE /\ conn' = Len(closes) + 1
            /\ Handler(o[2], Len(closes) + 1, Append(closes, 0),
                       Append(outcomes, o[2]))

\* The with-block ends without an exception (falls off the end, returns or
\* continues): the generator resumes at `return` and runs the finally.
BodyCompletes ==
    /\ cm_pc = "yielded"
    /\ Len(handed) = 1
    /\ cm_pc' = "returned"
    /\ closes' = close_handle(closes, conn)
    /\ suspended' = FALSE
    /\ UNCHANGED <<retries, attempt, conn, slept, outcomes, handed, thrown,
                   error, storevars, sessvars>>

\* The with-block raises: contextlib throws the exception in at the yield.
BodyRaises(kind) ==
    /\ cm_pc = "yielded"
    /\ Len(handed) = 1
    /\ thrown' = TRUE
    /\ conn' = conn
    /\ UNCHANGED <<retries, handed, storevars, sessvars>>
    /\ Handler(kind, conn, closes, outcomes)

\* The abandoned generator is finalised: GeneratorExit at the yield runs the
\* finally clause.
GenFinalize ==
    /\ cm_pc = "raised"
    /\ suspended
    /\ suspended' = FALSE
    /\ closes' = close_handle(closes, conn)
    /\ UNCHANGED <<retries, cm_pc, attempt, conn, slept, outcomes, handed,
                   thrown, error, storevars, sessvars>>

(***************************************************************************)
(* Text helpers: usernames and passwords are sequences of characters       *)
(***************************************************************************)
UpperChars == <<"A", "B", "C", "D", "E", "F", "G", "H", "I", "J", "K", "L", "M",
                "N", "O", "P", "Q", "R", "S", "T", "U", "V", "W", "X", "Y", "Z">>
LowerChars == <<"a", "b", "c", "d", "e", "f", "g", "h", "i", "j", "k", "l", "m",
                "n", "o", "p", "q", "r", "s", "t", "u", "v", "w", "x", "y", "z">>

LowerChar(c) ==
    IF \E i \in 1..26 : UpperChars[i] = c
    THEN LowerChars[CHOOSE i \in 1..26 : UpperChars[i] = c]
    ELSE c

\* str.lower()
lower(str) == [i \in 1..Len(str) |-> LowerChar(str[i])]

\* str.strip(): leading and trailing blanks removed
RECURSIVE lstrip(_)
lstrip(str) == IF str # <<>> /\ Head(str) = " " THEN lstrip(Tail(str)) ELSE str
RECURSIVE rstrip(_)
rstrip(str) ==
    IF str # <<>> /\ str[Len(str)] = " "
    THEN rstrip(SubSeq(str, 1, Len(str) - 1))
    ELSE str
strip(str) == rstrip(lstrip(str))

NoUser == <<>>
ADMIN == <<"a", "d", "m", "i", "n">>
ADMIN_PASSWORD == <<"a", "d", "m", "i", "n", "1", "2", "3">>

\* bcrypt.hashpw(password, bcrypt.gensalt()): the hash depends on the salt
hashpw(password, salt) == <<password, salt>>
\* bcrypt.checkpw(password, hashed)
checkpw(password, hashed) == hashed[1] = password

NoPath == [dir |-> "", stem |-> "", ext |-> <<>>]

NoLoc == [rid |-> 0, cat |-> <<>>, src |-> NoPath, dest |-> NoPath,
          count |-> 0, rating |-> 0, up |-> 0, created |-> FALSE,
          pending |-> FALSE, status |-> "", rows |-> <<>>, conn |-> FALSE]

\* Another connection holds an uncommitted write: a write statement of s
\* ends in sqlite3.OperationalError("database is locked").
WriteLocked(s) == \E t \in Sessions \ {s} : loc[t].pending

\* The operation ends and control is back in the menu loop.
Return(s, how) ==
    /\ pc' = [pc EXCEPT ![s] = "menu"]
    /\ loc' = [loc EXCEPT ![s] = NoLoc]
    /\ result' = [result EXCEPT ![s] = how]

(***************************************************************************)
(* db.py init_db                                                           *)
(***************************************************************************)
SchemaObjects == <<"users", "categories", "resources", "reviews", "favorites",
                   "study_groups", "group_members", "messages",
                   "notifications", "download_history", "study_sessions",
                   "calendar_events", "learning_progress", "user_interactions",
                   "idx_users_username", "idx_resources_category",
                   "idx_resources_uploaded_by", "idx_reviews_resource_id",
                   "idx_favorites_user_id">>

InSeq(x, sq) == \E i \in 1..Len(sq) : sq[i] = x

\* CREATE TABLE / CREATE INDEX ... IF NOT EXISTS for the first k objects
RECURSIVE create_if_not_exists(_, _)
create_if_not_exists(sch, k) ==
    IF k = 0 THEN sch
    ELSE LET before == create_if_not_exists(sch, k - 1)
         IN  IF InSeq(SchemaObjects[k], before) THEN before
             ELSE Append(before, SchemaObjects[k])

\* the default admin row of lines 241-249
admin_row(salt) ==
    [password |-> hashpw(ADMIN_PASSWORD, salt), role |-> "admin",
     is_verified |-> TRUE]

\* "INSERT OR REPLACE" in place of the SELECT guard of lines 242-243
seed_admin_always(us, salt) ==
    [h \in DOMAIN us \cup {ADMIN} |-> IF h = ADMIN THEN admin_row(salt) ELSE us[h]]
\* SELECT * FROM users WHERE username = 'admin'; insert only if absent
seed_admin(us, salt) ==
    IF ADMIN \in DOMAIN us THEN us
    ELSE [h \in DOMAIN us \cup {ADMIN} |-> IF h = ADMIN THEN admin_row(salt) ELSE us[h]]

\* the handler prints the error and main_menu is entered all the same
after_init_failure_continues == "running"
\* lines 254-257: the handler of sqlite3.Error prints, logs and calls exit(1)
after_init_failure == "exit1"

\* init_db at the start of a process: fail_at = 0 is a run without error;
\* otherwise the statement creating object number fail_at raises
\* sqlite3.Error and the process exits with code 1.
init_db(s, fail_at, salt) ==
    /\ process[s] # "running"
    /\ IF fail_at = 0
       THEN /\ schema' = create_if_not_exists(schema, Len(SchemaObjects))
            /\ users' = seed_admin(users, salt)
            /\ boot_runs' = boot_runs + 1
            /\ process' = [process EXCEPT ![s] = "running"]
            /\ result' = [result EXCEPT ![s] = "initialized"]
       ELSE /\ schema' = create_if_not_exists(schema, fail_at - 1)
            /\ process' = [process EXCEPT ![s] = after_init_failure]
            /\ result' = [result EXCEPT ![s] = "init_failed"]
            /\ UNCHANGED <<users, boot_runs>>
    /\ UNCHANGED <<categories, resources, reviews, download_history,
                   user_interactions, files, delivered, study_groups,
                   group_members, menu, user, pc, loc, next_upload,
                   copy_failed, cmvars, leaked>>

\* main_menu choice 3
exit_system(s) ==
    /\ process[s] = "running"
    /\ menu[s] = "main" /\ pc[s] = "menu"
    /\ process' = [process EXCEPT ![s] = "exit0"]
    /\ result' = [result EXCEPT ![s] = "goodbye"]
    /\ leaked' = [leaked EXCEPT ![s] = 0]      \* closed with the process
    /\ UNCHANGED <<storevars, menu, user, pc, loc, next_upload, copy_failed,
                   cmvars>>

(***************************************************************************)
(* main.py signup / login, db.py add_user / validate_user                  *)
(***************************************************************************)
\* add_user: INSERT INTO users; the primary key rejects an existing username
add_user(us, username, password, salt) ==
    [h \in DOMAIN us \cup {username} |->
        IF h = username
        THEN [password |-> hashpw(password, salt), role |-> "user",
              is_verified |-> FALSE]
        ELSE us[h]]

signup(s, name_in, pw_in, salt) ==
    /\ process[s] = "running"
    /\ menu[s] = "main" /\ pc[s] = "menu"
    /\ LET username == strip(name_in)
           password == strip(pw_in)
       IN  IF Len(username) < 3
           THEN /\ result' = [result EXCEPT ![s] = "username_too_short"]
                /\ users' = users
           ELSE IF Len(password) < 6
           THEN /\ result' = [result EXCEPT ![s] = "password_too_short"]
                /\ users' = users
           ELSE IF username \in DOMAIN users \/ WriteLocked(s)
           THEN /\ result' = [result EXCEPT ![s] = "username_exists"]
                /\ users' = users
           ELSE /\ result' = [result EXCEPT ![s] = "registered"]
                /\ users' = add_user(users, username, password, salt)
    /\ UNCHANGED <<categories, resources, reviews, download_history,
                   user_interactions, files, delivered, study_groups,
                   group_members, schema, boot_runs, process, menu, user, pc,
                   loc, next_upload, copy_failed, cmvars, leaked>>

\* the WHERE clause does not look at is_verified
validate_user_unverified_too(s, username, password) ==
    IF /\ username \in DOMAIN users
       /\ checkpw(password, users[username].password)
       /\ ~WriteLocked(s)
    THEN users[username].role
    ELSE "None"
\* validate_user: SELECT password, role ... WHERE username=? AND is_verified=1,
\* bcrypt.checkpw, UPDATE users SET last_active, commit; an sqlite3.Error of
\* the UPDATE (the store is locked) is caught and None is returned
validate_user(s, username, password) ==
    IF /\ username \in DOMAIN users
       /\ users[username].is_verified
       /\ checkpw(password, users[username].password)
       /\ ~WriteLocked(s)
    THEN users[username].role
    ELSE "None"

login(s, name_in, pw_in) ==
    /\ process[s] = "running"
    /\ menu[s] = "main" /\ pc[s] = "menu"
    /\ LET username == strip(name_in)
           role == validate_user(s, username, strip(pw_in))
       IN  IF role \in {"user", "admin"}
           THEN /\ menu' = [menu EXCEPT ![s] = role]
                /\ user' = [user EXCEPT ![s] = username]
                /\ result' = [result EXCEPT ![s] = "logged_in"]
           ELSE /\ result' = [result EXCEPT ![s] = "login_failed"]
                /\ UNCHANGED <<menu, user>>
    /\ UNCHANGED <<storevars, pc, loc, next_upload, copy_failed, process, cmvars, leaked>>

\* "Logout" of user_menu / "Back to Main Menu" of enhanced_admin_menu
logout(s) ==
    /\ menu[s] \in {"user", "admin"} /\ pc[s] = "menu"
    /\ menu' = [menu EXCEPT ![s] = "main"]
    /\ user' = [user EXCEPT ![s] = NoUser]
    /\ result' = [result EXCEPT ![s] = "logged_out"]
    /\ UNCHANGED <<storevars, pc, loc, next_upload, copy_failed, process, cmvars, leaked>>

(***************************************************************************)
(* admin.py verify_user / approve_resource / reject_resource / categories  *)
(***************************************************************************)
\* rows matched by `WHERE username = ? COLLATE NOCASE`
nocase_matches(username) ==
    {h \in DOMAIN users : lower(h) = lower(username)}

\* username.lower() == 'back' or not username  (line 93)
goes_back(username) == lower(username) = <<"b", "a", "c", "k">> \/ username = <<>>

verify_user(s, name_in) ==
    /\ menu[s] = "admin" /\ pc[s] = "menu"
    /\ LET username == strip(name_in)
           pending == {h \in DOMAIN users : ~users[h].is_verified}
       IN  IF pending = {}
           THEN /\ result' = [result EXCEPT ![s] = "no_pending_users"]
                /\ users' = users
           ELSE IF goes_back(username)
           THEN /\ result' = [result EXCEPT ![s] = "back"]
                /\ users' = users
           ELSE IF nocase_matches(username) = {}
           THEN /\ result' = [result EXCEPT ![s] = "user_not_found"]
                /\ users' = users
           ELSE \E first \in nocase_matches(username) :   \* c.fetchone()
                IF users[first].is_verified
                THEN /\ result' = [result EXCEPT ![s] = "already_verified"]
                     /\ users' = users
                ELSE IF WriteLocked(s)
                THEN /\ result' = [result EXCEPT ![s] = "db_error"]
                     /\ users' = users
                ELSE /\ result' = [result EXCEPT ![s] = "verified"]
                     /\ users' = [h \in DOMAIN users |->
                                    IF h \in nocase_matches(username)
                                    THEN [users[h] EXCEPT !.is_verified = TRUE]
                                    ELSE users[h]]
    /\ UNCHANGED <<categories, resources, reviews, download_history,
                   user_interactions, files, delivered, study_groups,
                   group_members, schema, boot_runs, process, menu, user, pc,
                   loc, next_upload, copy_failed, cmvars, leaked>>

\* approve_resource (new_status "approved") and reject_resource ("rejected")
\* up to the status check of lines 171-183 / 246-258: the pending list, the
\* resource id prompt, the rejection reason prompt, SELECT status.
review_resource(s, rid, new_status, reason) ==
    /\ menu[s] = "admin" /\ pc[s] = "menu"
    /\ IF \A i \in 1..Len(resources) : resources[i].status # "pending"
       THEN /\ result' = [result EXCEPT ![s] = "no_pending_resources"]
            /\ UNCHANGED <<pc, loc>>
       ELSE IF reason = ""
       THEN /\ result' = [result EXCEPT ![s] = "empty_reason"]
            /\ UNCHANGED <<pc, loc>>
       ELSE IF rid \notin 1..Len(resources)
       THEN /\ result' = [result EXCEPT ![s] = "resource_not_found"]
            /\ UNCHANGED <<pc, loc>>
       ELSE IF resources[rid].status # "pending"
       THEN /\ result' = [result EXCEPT ![s] = "not_pending"]
            /\ UNCHANGED <<pc, loc>>
       ELSE /\ loc' = [loc EXCEPT ![s] = [NoLoc EXCEPT !.rid = rid,
                                                       !.status = new_status,
                                                       !.conn = TRUE]]
            /\ pc' = [pc EXCEPT ![s] = "rv_update"]
            /\ result' = [result EXCEPT ![s] = "running"]
    /\ UNCHANGED <<storevars, menu, user, next_upload, copy_failed, process,
                   cmvars, leaked>>

\* approve_resource has no reason prompt
approve_resource(s, rid) == review_resource(s, rid, "approved", "n/a")
reject_resource(s, rid, reason) == review_resource(s, rid, "rejected", reason)

\* UPDATE resources SET status = ? WHERE id = ?  (lines 186 / 261)
set_status(row, new_status) == [row EXCEPT !.status = new_status]

\* lines 185-191 / 260-267: the UPDATE and the commit
review_commit(s) ==
    /\ pc[s] = "rv_update"
    /\ IF WriteLocked(s)
       THEN /\ resources' = resources
            /\ Return(s, "db_error")
       ELSE /\ resources' = [resources EXCEPT ![loc[s].rid] =
                                set_status(@, loc[s].status)]
            /\ Return(s, loc[s].status)
    /\ UNCHANGED <<users, categories, reviews, download_history,
                   user_interactions, files, delivered, study_groups,
                   group_members, schema, boot_runs, process, menu, user,
                   next_upload, copy_failed, cmvars, leaked>>

\* manage_categories, choice 2: add a category and commit
add_category(s, name_in) ==
    /\ menu[s] = "admin" /\ pc[s] = "menu"
    /\ LET name == strip(name_in) IN
       IF name = <<>>
       THEN /\ result' = [result EXCEPT ![s] = "empty_name"]
            /\ categories' = categories
       ELSE IF \E c \in categories : lower(c) = lower(name)
       THEN /\ result' = [result EXCEPT ![s] = "category_exists"]
            /\ categories' = categories
       ELSE IF WriteLocked(s)
       THEN /\ result' = [result EXCEPT ![s] = "db_error"]
            /\ categories' = categories
       ELSE /\ result' = [result EXCEPT ![s] = "category_added"]
            /\ categories' = categories \cup {name}
    /\ UNCHANGED <<users, resources, reviews, download_history,
                   user_interactions, files, delivered, study_groups,
                   group_members, schema, boot_runs, process, menu, user, pc,
                   loc, next_upload, copy_failed, cmvars, leaked>>

\* manage_categories, choice 3: edit the category that has name cat; an empty
\* new name keeps the current one. UPDATE categories SET name = ? WHERE id = ?
\* leaves resources.category_name as it is (get_db_connection does not turn
\* foreign_keys on, and the key has no ON UPDATE action).
edit_category(s, cat, name_in) ==
    /\ menu[s] = "admin" /\ pc[s] = "menu"
    /\ LET name == IF strip(name_in) = <<>> THEN cat ELSE strip(name_in) IN
       IF cat \notin categories
       THEN /\ result' = [result EXCEPT ![s] = "category_not_found"]
            /\ categories' = categories
       ELSE IF WriteLocked(s) \/ (name # cat /\ name \in categories)
       THEN /\ result' = [result EXCEPT ![s] = "db_error"]   \* locked / UNIQUE
            /\ categories' = categories
       ELSE /\ result' = [result EXCEPT ![s] = "category_updated"]
            /\ categories' = (categories \ {cat}) \cup {name}
    /\ UNCHANGED <<users, resources, reviews, download_history,
                   user_interactions, files, delivered, study_groups,
                   group_members, schema, boot_runs, process, menu, user, pc,
                   loc, next_upload, copy_failed, cmvars, leaked>>

(***************************************************************************)
(* resource.py upload_resource                                             *)
(***************************************************************************)
RESOURCES_DIR == "resources"
VIDEOS_DIR == "videos"

VideoExts == { <<".", "m", "p", "4">>, <<".", "a", "v", "i">>,
               <<".", "m", "k", "v">>, <<".", "m", "o", "v">>,
               <<".", "w", "m", "v">>, <<".", "f", "l", "v">> }

\* files the users have on disk outside the two roots
NotesPdf == [dir |-> "home", stem |-> "notes", ext |-> <<".", "p", "d", "f">>]
ClipMp4 == [dir |-> "home", stem |-> "clip", ext |-> <<".", "M", "P", "4">>]
GonePdf == [dir |-> "home", stem |-> "gone", ext |-> <<".", "p", "d", "f">>]
DeskNotesPdf == [dir |-> "desk", stem |-> "notes", ext |-> <<".", "p", "d", "f">>]
source_files == {NotesPdf, ClipMp4, DeskNotesPdf}

\* os.path.exists
path_exists(p) == p \in source_files \/ p \in DOMAIN files

\* file_ext = os.path.splitext(file_path)[1].lower(); is_video
is_video(p) == lower(p.ext) \in VideoExts

\* dest_path = os.path.join(dest_dir, os.path.basename(file_path))
dest_path(p) ==
    [dir |-> IF is_video(p) THEN VIDEOS_DIR ELSE RESOURCES_DIR,
     stem |-> p.stem, ext |-> p.ext]

\* sqlite3 Connection.close() with an open transaction: the pending INSERT
\* INTO categories is rolled back, the committed table is what remains
after_close(cats, l) == cats

\* lines 11-27: verification check, the prompts up to the tags, the category
\* lookup
upload_begin(s, cat) ==
    /\ menu[s] = "user" /\ pc[s] = "menu"
    /\ IF user[s] \notin DOMAIN users \/ ~users[user[s]].is_verified
       THEN /\ result' = [result EXCEPT ![s] = "not_verified"]
            /\ UNCHANGED <<pc, loc, next_upload>>
       ELSE /\ next_upload' = next_upload + 1
            /\ loc' = [loc EXCEPT ![s] = [NoLoc EXCEPT !.cat = cat,
                                                       !.up = next_upload + 1,
                                                       !.conn = TRUE]]
            /\ pc' = [pc EXCEPT ![s] = IF cat \in categories THEN "up_path"
                                       ELSE "up_color"]
            /\ result' = [result EXCEPT ![s] = "running"]
    /\ UNCHANGED <<storevars, menu, user, copy_failed, process, cmvars, leaked>>

\* lines 28-30: colour prompt, INSERT INTO categories (not committed)
upload_insert_category(s) ==
    /\ pc[s] = "up_color"
    /\ IF WriteLocked(s) \/ loc[s].cat \in categories
       THEN Return(s, "db_error")       \* locked / UNIQUE constraint failed
       ELSE /\ loc' = [loc EXCEPT ![s].created = TRUE, ![s].pending = TRUE]
            /\ pc' = [pc EXCEPT ![s] = "up_path"]
            /\ result' = result
    /\ UNCHANGED <<storevars, menu, user, next_upload, copy_failed, process, cmvars, leaked>>

\* the connection is left open for the finally clause of line 84
closed_in_finally(l) == l
\* lines 45-47: conn.close(); conn = None
closed(l) == [l EXCEPT !.pending = FALSE, !.conn = FALSE]

\* lines 32-47: file path prompt, existence check, destination, conn.close()
upload_path(s, file_path) ==
    /\ pc[s] = "up_path"
    /\ categories' = after_close(categories, loc[s])
    /\ IF ~path_exists(file_path)
       THEN Return(s, "file_not_found")
       ELSE /\ loc' = [loc EXCEPT ![s] =
                        closed([loc[s] EXCEPT !.src = file_path,
                                              !.dest = dest_path(file_path)])]
            /\ pc' = [pc EXCEPT ![s] = "up_copy"]
            /\ result' = result
    /\ UNCHANGED <<users, resources, reviews, download_history,
                   user_interactions, files, delivered, study_groups,
                   group_members, schema, boot_runs, process, menu, user,
                   next_upload, copy_failed, cmvars, leaked>>

\* the handler of lines 52-54 falls through to Phase C
after_copy_swallowed(ok) == "up_insert"
\* where upload_resource goes after shutil.copy2 (lines 50-54)
after_copy(ok) == IF ok THEN "up_insert" ELSE "menu"

\* lines 49-60: shutil.copy2 with no connection open
upload_copy(s, ok) ==
    /\ pc[s] = "up_copy"
    /\ files' = IF ok
                THEN [p \in DOMAIN files \cup {loc[s].dest} |->
                        IF p = loc[s].dest THEN loc[s].src ELSE files[p]]
                ELSE files
    /\ copy_failed' = IF ok THEN copy_failed ELSE copy_failed \cup {loc[s].up}
    /\ IF after_copy(ok) = "menu"
       THEN Return(s, "copy_failed")
       ELSE /\ pc' = [pc EXCEPT ![s] = after_copy(ok)]
            /\ UNCHANGED <<loc, result>>
    /\ UNCHANGED <<users, categories, resources, reviews, download_history,
                   user_interactions, delivered, study_groups, group_members,
                   schema, boot_runs, process, menu, user, next_upload, cmvars, leaked>>

resource_row(s, share_link) ==
    [category_name |-> loc[s].cat, uploaded_by |-> user[s],
     file_path |-> loc[s].dest, status |-> "pending", download_count |-> 0,
     share_link |-> share_link, upload |-> loc[s].up]

\* the handlers delete the copied file again
after_insert_failure_cleanup(fs, dest) == [q \in DOMAIN fs \ {dest} |-> fs[q]]
\* lines 80-86: the handlers of Phase C print the error and close the
\* connection; the copied file is left where it is
after_insert_failure(fs, dest) == fs

\* lines 62-86: reconnect, INSERT INTO resources, commit
upload_insert(s, share_link, ok) ==
    /\ pc[s] = "up_insert"
    /\ IF ok /\ ~WriteLocked(s)
       THEN /\ resources' = Append(resources, resource_row(s, share_link))
            /\ files' = files
            /\ Return(s, "uploaded")
       ELSE /\ resources' = resources
            /\ files' = after_insert_failure(files, loc[s].dest)
            /\ Return(s, "db_error")
    /\ UNCHANGED <<users, categories, reviews, download_history,
                   user_interactions, delivered, study_groups,
                   group_members, schema, boot_runs, process, menu, user,
                   next_upload, copy_failed, cmvars, leaked>>

(***************************************************************************)
(* utils.py log_interaction                                                *)
(***************************************************************************)
\* INSERT INTO user_interactions and commit on a connection of its own; the
\* callers catch whatever it raises and print a warning.
\* When execute or commit raises, conn.close() of line 30 is not reached:
\* the connection stays open, unreferenced, until the runtime finalises it.
log_interaction(s, user_id, resource_id, interaction_type, value, ok) ==
    /\ user_interactions' =
           IF ok /\ ~WriteLocked(s)
           THEN Append(user_interactions,
                       [user_id |-> user_id, resource_id |-> resource_id,
                        interaction_type |-> interaction_type,
                        interaction_value |-> value])
           ELSE user_interactions
    /\ leaked' = IF ok /\ ~WriteLocked(s) THEN leaked
                 ELSE [leaked EXCEPT ![s] = @ + 1]

\* the runtime finalises the unreferenced connection objects of a process
\* (sqlite3.Connection closes itself when it is deallocated)
finalize_connections(s) ==
    /\ leaked[s] > 0
    /\ leaked' = [leaked EXCEPT ![s] = 0]
    /\ UNCHANGED <<storevars, menu, user, pc, loc, result, next_upload,
                   copy_failed, process, cmvars>>

(***************************************************************************)
(* resource.py download_resource                                           *)
(***************************************************************************)
\* lines 229-248: Phase A, look the approved resource up and close
download_begin(s, resource_id) ==
    /\ menu[s] = "user" /\ pc[s] = "menu"
    /\ IF resource_id \in 1..Len(resources)
          /\ resources[resource_id].status = "approved"
       THEN /\ loc' = [loc EXCEPT ![s] =
                        [NoLoc EXCEPT !.rid = resource_id,
                                      !.dest = resources[resource_id].file_path,
                                      !.count = resources[resource_id].download_count]]
            /\ pc' = [pc EXCEPT ![s] = "dl_copy"]
            /\ result' = [result EXCEPT ![s] = "running"]
       ELSE /\ result' = [result EXCEPT ![s] = "not_found_or_not_approved"]
            /\ UNCHANGED <<pc, loc>>
    /\ UNCHANGED <<storevars, menu, user, next_upload, copy_failed, process, cmvars, leaked>>

\* a stored file is deleted or moved from outside the program (the case
\* os.path.exists at line 251 looks for)
remove_file(p) ==
    /\ p \in DOMAIN files
    /\ files' = [q \in DOMAIN files \ {p} |-> files[q]]
    /\ UNCHANGED <<users, categories, resources, reviews, download_history,
                   user_interactions, delivered, study_groups, group_members,
                   schema, boot_runs, sessvars, cmvars>>

\* the existence check of line 251 is missing
after_download_unchecked(exists, ok) == IF ok THEN "dl_update" ELSE "menu"
\* where download_resource goes after Phase B (lines 251-266)
after_download(exists, ok) == IF exists /\ ok THEN "dl_update" ELSE "menu"

\* lines 250-266: Phase B, existence check and copy with no connection open
download_copy(s, ok) ==
    /\ pc[s] = "dl_copy"
    /\ delivered' = IF path_exists(loc[s].dest) /\ ok
                    THEN delivered \cup {loc[s].dest}
                    ELSE delivered
    /\ IF after_download(path_exists(loc[s].dest), ok) = "menu"
       THEN Return(s, IF ~path_exists(loc[s].dest) THEN "source_missing"
                      ELSE "download_error")
       ELSE /\ pc' = [pc EXCEPT ![s] =
                        after_download(path_exists(loc[s].dest), ok)]
            /\ UNCHANGED <<loc, result>>
    /\ UNCHANGED <<users, categories, resources, reviews, download_history,
                   user_interactions, files, study_groups, group_members,
                   schema, boot_runs, process, menu, user, next_upload,
                   copy_failed, cmvars, leaked>>

\* SET download_count = <count read in Phase A> + 1
incremented_stale(row, count) == [row EXCEPT !.download_count = count + 1]
\* UPDATE resources SET download_count = COALESCE(download_count, 0) + 1
incremented(row, count) == [row EXCEPT !.download_count = @ + 1]

\* lines 268-281 and 289-290: Phase C, counter and history in one commit
download_update(s, ok) ==
    /\ pc[s] = "dl_update"
    /\ IF ok /\ ~WriteLocked(s)
       THEN /\ resources' = [resources EXCEPT ![loc[s].rid] =
                                incremented(@, loc[s].count)]
            /\ download_history' = Append(download_history,
                    [user_id |-> user[s], resource_id |-> loc[s].rid])
            /\ pc' = [pc EXCEPT ![s] = "dl_log"]
            /\ loc' = [loc EXCEPT ![s].conn = TRUE]
            /\ result' = result
       ELSE /\ Return(s, "statistics_warning")
            /\ UNCHANGED <<resources, download_history>>
    /\ UNCHANGED <<users, categories, reviews, user_interactions, files,
                   delivered, study_groups, group_members, schema, boot_runs,
                   process, menu, user, next_upload, copy_failed, cmvars, leaked>>

\* lines 283-287: best-effort interaction log
download_log(s, ok) ==
    /\ pc[s] = "dl_log"
    /\ log_interaction(s, user[s], loc[s].rid, "download", 3, ok)
    /\ Return(s, IF ok /\ ~WriteLocked(s) THEN "downloaded"
                 ELSE "downloaded_log_warning")
    /\ UNCHANGED <<users, categories, resources, reviews, download_history,
                   files, delivered, study_groups, group_members, schema,
                   boot_runs, process, menu, user, next_upload, copy_failed,
                   cmvars>>

(***************************************************************************)
(* resource.py rate_resource                                               *)
(***************************************************************************)
\* the duplicate check is skipped
already_rated_skipped(resource_id, reviewer) == FALSE
\* SELECT id FROM reviews WHERE resource_id = ? AND reviewer = ?
already_rated(resource_id, reviewer) ==
    \E i \in 1..Len(reviews) :
        reviews[i].resource_id = resource_id /\ reviews[i].reviewer = reviewer

\* lines 372-396: resource lookup and duplicate check
rate_begin(s, resource_id) ==
    /\ menu[s] = "user" /\ pc[s] = "menu"
    /\ IF ~(resource_id \in 1..Len(resources)
            /\ resources[resource_id].status = "approved")
       THEN /\ result' = [result EXCEPT ![s] = "not_found_or_not_approved"]
            /\ UNCHANGED <<pc, loc>>
       ELSE IF already_rated(resource_id, user[s])
       THEN /\ result' = [result EXCEPT ![s] = "already_rated"]
            /\ UNCHANGED <<pc, loc>>
       ELSE /\ loc' = [loc EXCEPT ![s] = [NoLoc EXCEPT !.rid = resource_id,
                                                       !.conn = TRUE]]
            /\ pc' = [pc EXCEPT ![s] = "rate_input"]
            /\ result' = [result EXCEPT ![s] = "running"]
    /\ UNCHANGED <<storevars, menu, user, next_upload, copy_failed, process, cmvars, leaked>>

\* rating < 0 or rating > 5
rating_rejected_from_zero(rating) == rating < 0 \/ rating > 5
\* rating < 1 or rating > 5
rating_rejected(rating) == rating < 1 \/ rating > 5

\* the interaction is logged whether or not the INSERT was committed
after_rate_insert_always_logs(committed) == "rate_log"
\* lines 410-418: log_interaction comes after conn.commit(); an sqlite3.Error
\* of the INSERT or the commit goes to the handler of line 422
after_rate_insert(committed) == IF committed THEN "rate_log" ELSE "menu"

\* lines 398-414: rating prompt and validation, comment, INSERT, commit.
\* rating_in is <<"int", n>> or <<"text", 0>> (int() raises ValueError).
rate_submit(s, rating_in, ok) ==
    /\ pc[s] = "rate_input"
    /\ IF rating_in[1] # "int"
       THEN /\ Return(s, "invalid_rating")
            /\ reviews' = reviews
       ELSE IF rating_rejected(rating_in[2])
       THEN /\ Return(s, "rating_out_of_range")
            /\ reviews' = reviews
       ELSE LET committed == ok /\ ~WriteLocked(s) IN
            /\ reviews' = IF committed
                          THEN Append(reviews,
                                 [resource_id |-> loc[s].rid,
                                  reviewer |-> user[s], rating |-> rating_in[2]])
                          ELSE reviews
            /\ IF after_rate_insert(committed) = "menu"
               THEN Return(s, "db_error")
               ELSE /\ pc' = [pc EXCEPT ![s] = after_rate_insert(committed)]
                    /\ loc' = [loc EXCEPT ![s].rating = rating_in[2]]
                    /\ result' = result
    /\ UNCHANGED <<users, categories, resources, download_history,
                   user_interactions, files, delivered, study_groups,
                   group_members, schema, boot_runs, process, menu, user,
                   next_upload, copy_failed, cmvars, leaked>>

\* lines 416-420: best-effort interaction log
rate_log(s, ok) ==
    /\ pc[s] = "rate_log"
    /\ log_interaction(s, user[s], loc[s].rid, "rate", loc[s].rating, ok)
    /\ Return(s, IF ok /\ ~WriteLocked(s) THEN "rated" ELSE "rated_log_warning")
    /\ UNCHANGED <<users, categories, resources, reviews, download_history,
                   files, delivered, study_groups, group_members, schema,
                   boot_runs, process, menu, user, next_upload, copy_failed,
                   cmvars>>

(***************************************************************************)
(* resource.py share_resource_link                                         *)
(***************************************************************************)
\* lines 300-335: look the approved resource up, print its share link, then
\* the best-effort interaction log
share_resource_link(s, resource_id, ok) ==
    /\ menu[s] = "user" /\ pc[s] = "menu"
    /\ IF resource_id \in 1..Len(resources)
          /\ resources[resource_id].status = "approved"
       THEN /\ log_interaction(s, user[s], resource_id, "share", 1, ok)
            /\ result' = [result EXCEPT ![s] =
                            IF ok /\ ~WriteLocked(s) THEN "shared"
                            ELSE "shared_log_warning"]
       ELSE /\ result' = [result EXCEPT ![s] = "not_found_or_not_approved"]
            /\ UNCHANGED <<user_interactions, leaked>>
    /\ UNCHANGED <<users, categories, resources, reviews, download_history,
                   files, delivered, study_groups, group_members, schema,
                   boot_runs, process, menu, user, pc, loc, next_upload,
                   copy_failed, cmvars>>

(***************************************************************************)
(* resource.py access_shared_resource                                      *)
(***************************************************************************)
\* SELECT id ... FROM resources WHERE share_link = ? AND status = 'approved'
shared_matches(share_link) ==
    {i \in 1..Len(resources) : /\ resources[i].share_link = share_link
                               /\ resources[i].status = "approved"}

\* lines 337-368; fetchone() returns one of the matching rows; answering y
\* raises the counter of that row. loc.rid keeps the row that was found.
access_shared_resource(s, share_link, answer) ==
    /\ process[s] = "running" /\ pc[s] = "menu"
    /\ IF shared_matches(share_link) = {}
       THEN /\ result' = [result EXCEPT ![s] = "invalid_share_link"]
            /\ UNCHANGED <<resources, loc>>
       ELSE \E resource_id \in shared_matches(share_link) :
            /\ loc' = [loc EXCEPT ![s] = [NoLoc EXCEPT !.rid = resource_id]]
            /\ IF answer # "y"
               THEN /\ result' = [result EXCEPT ![s] = "resource_found"]
                    /\ resources' = resources
               ELSE IF WriteLocked(s)
               THEN /\ result' = [result EXCEPT ![s] = "db_error"]
                    /\ resources' = resources
               ELSE /\ result' = [result EXCEPT ![s] = "download_initiated"]
                    /\ resources' = [resources EXCEPT ![resource_id] =
                                        incremented(@, 0)]
    /\ UNCHANGED <<users, categories, reviews, download_history,
                   user_interactions, files, delivered, study_groups,
                   group_members, schema, boot_runs, process, menu, user, pc,
                   next_upload, copy_failed, cmvars, leaked>>

(***************************************************************************)
(* resource.py view_reviews                                                *)
(***************************************************************************)
RECURSIVE Reverse(_)
Reverse(sq) == IF sq = <<>> THEN <<>> ELSE Append(Reverse(Tail(sq)), Head(sq))

\* the WHERE clause is missing
reviews_of_all(resource_id) == Reverse(reviews)
\* SELECT reviewer, rating, ... FROM reviews WHERE resource_id = ?
\* ORDER BY review_date DESC: the newest row first
reviews_of(resource_id) ==
    Reverse(SelectSeq(reviews, LAMBDA r : r.resource_id = resource_id))

\* lines 430-470; loc.count keeps how many rows the reviews table had when
\* the SELECT ran
view_reviews(s, resource_id) ==
    /\ menu[s] = "user" /\ pc[s] = "menu"
    /\ IF resource_id \notin 1..Len(resources)
       THEN /\ result' = [result EXCEPT ![s] = "resource_not_found"]
            /\ loc' = loc
       ELSE /\ loc' = [loc EXCEPT ![s] =
                        [NoLoc EXCEPT !.rid = resource_id,
                                      !.count = Len(reviews),
                                      !.rows = reviews_of(resource_id)]]
            /\ result' = [result EXCEPT ![s] =
                            IF reviews_of(resource_id) # <<>>
                            THEN "reviews_shown" ELSE "no_reviews"]
    /\ UNCHANGED <<storevars, menu, user, pc, next_upload, copy_failed,
                   process, cmvars, leaked>>

(***************************************************************************)
(* study_groups.py                                                         *)
(***************************************************************************)
DefaultMaxMembers == 20

\* An uncaught exception leaves every menu loop; __main__ prints the error
\* and calls exit(1).
Crash(s) ==
    /\ process' = [process EXCEPT ![s] = "exit1"]
    /\ leaked' = [leaked EXCEPT ![s] = 0]      \* closed with the process
    /\ menu' = [menu EXCEPT ![s] = "main"]
    /\ user' = [user EXCEPT ![s] = NoUser]
    /\ Return(s, "system_error")

\* SELECT COUNT(*) FROM group_members WHERE group_id = ? AND is_active = 1
active_members(group_id) ==
    Cardinality({m \in group_members : m.group_id = group_id /\ m.is_active})

\* max_members = input(...) or 20; int(); ValueError falls back to 20.
\* max_in is <<"int", n>>, <<"text", 0>> or <<"empty", 0>>.
parse_max_members(max_in) ==
    IF max_in[1] = "int" THEN max_in[2] ELSE DefaultMaxMembers

\* lines 6-61: create the group and enrol the creator as its admin member
create_study_group(s, max_in, group_code) ==
    /\ menu[s] = "user" /\ pc[s] = "menu"
    /\ IF user[s] \notin DOMAIN users \/ ~users[user[s]].is_verified
       THEN /\ result' = [result EXCEPT ![s] = "not_verified"]
            /\ UNCHANGED <<study_groups, group_members, menu, user, pc, loc,
                           process, leaked>>
       ELSE IF parse_max_members(max_in) < 1
       THEN /\ result' = [result EXCEPT ![s] = "max_members_too_small"]
            /\ UNCHANGED <<study_groups, group_members, menu, user, pc, loc,
                           process, leaked>>
       ELSE IF WriteLocked(s)
               \/ \E i \in 1..Len(study_groups) :
                      study_groups[i].group_code = group_code
       THEN \* OperationalError / IntegrityError (group_code UNIQUE), not caught
            /\ Crash(s)
            /\ UNCHANGED <<study_groups, group_members>>
       ELSE /\ study_groups' = Append(study_groups,
                    [created_by |-> user[s],
                     max_members |-> parse_max_members(max_in),
                     group_code |-> group_code])
            /\ group_members' = group_members \cup
                    {[group_id |-> Len(study_groups) + 1,
                      member_username |-> user[s], role |-> "admin",
                      is_active |-> TRUE]}
            /\ result' = [result EXCEPT ![s] = "group_created"]
            /\ UNCHANGED <<menu, user, pc, loc, process, leaked>>
    /\ UNCHANGED <<users, categories, resources, reviews, download_history,
                   user_interactions, files, delivered, schema, boot_runs,
                   next_upload, copy_failed, cmvars>>

\* lines 99-118: verification check, group code prompt, group lookup
join_lookup(s, group_code) ==
    /\ menu[s] = "user" /\ pc[s] = "menu"
    /\ IF user[s] \notin DOMAIN users \/ ~users[user[s]].is_verified
       THEN /\ result' = [result EXCEPT ![s] = "not_verified"]
            /\ UNCHANGED <<pc, loc>>
       ELSE IF \A i \in 1..Len(study_groups) :
                   study_groups[i].group_code # group_code
       THEN /\ result' = [result EXCEPT ![s] = "invalid_group_code"]
            /\ UNCHANGED <<pc, loc>>
       ELSE LET group_id == CHOOSE i \in 1..Len(study_groups) :
                                study_groups[i].group_code = group_code
            IN  /\ loc' = [loc EXCEPT ![s] =
                            [NoLoc EXCEPT !.rid = group_id,
                                          !.count = study_groups[group_id].max_members,
                                          !.conn = TRUE]]
                /\ pc' = [pc EXCEPT ![s] = "join_check"]
                /\ result' = [result EXCEPT ![s] = "running"]
    /\ UNCHANGED <<storevars, menu, user, next_upload, copy_failed, process, cmvars, leaked>>

\* current_members > max_members
group_full_off_by_one(current_members, max_members) ==
    current_members > max_members
\* current_members >= max_members
group_full(current_members, max_members) == current_members >= max_members

\* lines 120-145: capacity check, membership check, INSERT, commit
join_check(s) ==
    /\ pc[s] = "join_check"
    /\ IF group_full(active_members(loc[s].rid), loc[s].count)
       THEN /\ Return(s, "group_full")
            /\ UNCHANGED <<group_members, menu, user, process, leaked>>
       ELSE IF \E m \in group_members :
                   m.group_id = loc[s].rid /\ m.member_username = user[s]
       THEN /\ Return(s, "already_member")
            /\ UNCHANGED <<group_members, menu, user, process, leaked>>
       ELSE IF WriteLocked(s)
       THEN /\ Crash(s)
            /\ UNCHANGED group_members
       ELSE /\ group_members' = group_members \cup
                    {[group_id |-> loc[s].rid, member_username |-> user[s],
                      role |-> "member", is_active |-> TRUE]}
            /\ Return(s, "joined")
            /\ UNCHANGED <<menu, user, process, leaked>>
    /\ UNCHANGED <<users, categories, resources, reviews, download_history,
                   user_interactions, files, delivered, study_groups, schema,
                   boot_runs, next_upload, copy_failed, cmvars>>

(***************************************************************************)
(* Specifications                                                          *)
(***************************************************************************)
MaxUploads == 2
MaxApproved == 1
MaxReviews == 2
MaxDownloads == 2
MaxBoots == 3
MaxScenario == 2
MaxLogs == 1

BOB == <<"b", "o", "b">>
AMY == <<"a", "m", "y">>
SECRET == <<"s", "e", "c", "r", "e", "t">>
PHYSICS == <<"P", "h", "y">>
MATHS == <<"M", "a", "t">>

\* the connection manager at rest
IdleConn ==
    /\ retries = 1
    /\ cm_pc = "returned"
    /\ attempt = 0
    /\ conn = 0
    /\ closes = <<>>
    /\ slept = <<>>
    /\ outcomes = <<>>
    /\ handed = <<>>
    /\ thrown = FALSE
    /\ suspended = FALSE
    /\ error = "none"

\* no process has started: resources.db does not exist yet
InitEmpty ==
    /\ users = << >>
    /\ categories = {}
    /\ resources = <<>>
    /\ reviews = <<>>
    /\ download_history = <<>>
    /\ user_interactions = <<>>
    /\ files = << >>
    /\ delivered = {}
    /\ study_groups = <<>>
    /\ group_members = {}
    /\ schema = <<>>
    /\ boot_runs = 0
    /\ menu = [s \in Sessions |-> "main"]
    /\ user = [s \in Sessions |-> NoUser]
    /\ pc = [s \in Sessions |-> "menu"]
    /\ loc = [s \in Sessions |-> NoLoc]
    /\ result = [s \in Sessions |-> "none"]
    /\ next_upload = 0
    /\ copy_failed = {}
    /\ leaked = [s \in Sessions |-> 0]
    /\ process = [s \in Sessions |-> "start"]

\* every process has run init_db and shows its main menu
InitBooted ==
    /\ users = seed_admin(<< >>, 1)
    /\ categories = {}
    /\ resources = <<>>
    /\ reviews = <<>>
    /\ download_history = <<>>
    /\ user_interactions = <<>>
    /\ files = << >>
    /\ delivered = {}
    /\ study_groups = <<>>
    /\ group_members = {}
    /\ schema = create_if_not_exists(<<>>, Len(SchemaObjects))
    /\ boot_runs = Cardinality(Sessions)
    /\ menu = [s \in Sessions |-> "main"]
    /\ user = [s \in Sessions |-> NoUser]
    /\ pc = [s \in Sessions |-> "menu"]
    /\ loc = [s \in Sessions |-> NoLoc]
    /\ result = [s \in Sessions |-> "none"]
    /\ next_upload = 0
    /\ copy_failed = {}
    /\ leaked = [s \in Sessions |-> 0]
    /\ process = [s \in Sessions |-> "running"]

InitConn ==
    /\ retries \in 1..MaxRetries
    /\ cm_pc = "loop"
    /\ attempt = 0
    /\ conn = 0
    /\ closes = <<>>
    /\ slept = <<>>
    /\ outcomes = <<>>
    /\ handed = <<>>
    /\ thrown = FALSE
    /\ suspended = FALSE
    /\ error = "none"
    /\ InitBooted

NextConn ==
    \/ \E o \in OpenOutcomes : AttemptOpen(o)
    \/ BodyCompletes
    \/ \E k \in FailureKinds : BodyRaises(k)
    \/ GenFinalize

SpecConn == InitConn /\ [][NextConn]_vars

\* upload, review of uploads, download and rating, two interleaved sessions
InitStore == IdleConn /\ InitBooted

NameInputs == {BOB, <<" ">> \o BOB, <<"a", "l">>}
PasswordInputs == {SECRET, <<"p", "w">>}
PathInputs == {NotesPdf, ClipMp4, GonePdf}
ShareLinks == {"1a2b3c4d", "9f8e7d6c"}
RatingInputs == {<<"int", n>> : n \in 0..6} \cup {<<"text", 0>>}
Reasons == {"", "duplicate"}

\* sign-up, login and logout, and the admin's verification of users
AccountsOf(names) ==
    \/ \E s \in Sessions, n \in names, p \in PasswordInputs :
          signup(s, n, p, 1)
    \/ \E s \in Sessions, n \in names : login(s, n, SECRET)
    \/ \E s \in Sessions, p \in {SECRET, ADMIN_PASSWORD} : login(s, ADMIN, p)
    \/ \E s \in Sessions : logout(s)
    \/ \E s \in Sessions, n \in names : verify_user(s, n)

Accounts == AccountsOf(NameInputs)

\* one successful upload of notes.pdf at a time, in an existing category
PlainUpload(max) ==
    \/ \E s \in Sessions : add_category(s, PHYSICS)
    \/ \E s \in Sessions :
          /\ next_upload < max
          /\ \A t \in Sessions : pc[t] = "menu"
          /\ upload_begin(s, PHYSICS)
    \/ \E s \in Sessions : upload_insert_category(s)
    \/ \E s \in Sessions : upload_path(s, NotesPdf)
    \/ \E s \in Sessions : upload_copy(s, TRUE)
    \/ \E s \in Sessions : upload_insert(s, "1a2b3c4d", TRUE)

NextUpload ==
    \/ Accounts
    \/ \E s \in Sessions, c \in {PHYSICS, MATHS} : add_category(s, c)
    \/ \E s \in Sessions, c \in {PHYSICS, MATHS} :
          next_upload < MaxUploads /\ upload_begin(s, c)
    \/ \E s \in Sessions : upload_insert_category(s)
    \/ \E s \in Sessions, f \in PathInputs : upload_path(s, f)
    \/ \E s \in Sessions, ok \in BOOLEAN : upload_copy(s, ok)
    \/ \E s \in Sessions, ok \in BOOLEAN : upload_insert(s, "1a2b3c4d", ok)

SpecUpload == InitStore /\ [][NextUpload]_vars

Downloading == {s \in Sessions : pc[s] \in {"dl_copy", "dl_update"}}

NextDownload ==
    \/ AccountsOf({BOB, AMY})
    \/ PlainUpload(MaxApproved)
    \/ \E s \in Sessions, r \in 1..(MaxApproved + 1) : approve_resource(s, r)
    \/ \E s \in Sessions : review_commit(s)
    \/ \E s \in Sessions, r \in 1..(MaxApproved + 1) :
          /\ Len(download_history) + Cardinality(Downloading) < MaxDownloads
          /\ download_begin(s, r)
    \/ \E s \in Sessions, ok \in BOOLEAN : download_copy(s, ok)
    \/ \E s \in Sessions, ok \in BOOLEAN : download_update(s, ok)
    \/ \E s \in Sessions, ok \in BOOLEAN : download_log(s, ok)

SpecDownload == InitStore /\ [][NextDownload]_vars

\* downloads of files that may vanish from the store's directories
NextAbort ==
    \/ AccountsOf({BOB})
    \/ PlainUpload(MaxApproved)
    \/ \E s \in Sessions, r \in 1..(MaxApproved + 1) : approve_resource(s, r)
    \/ \E s \in Sessions : review_commit(s)
    \/ \E s \in Sessions : upload_insert(s, "1a2b3c4d", FALSE)
    \/ remove_file(dest_path(NotesPdf))
    \/ \E s \in Sessions, r \in 1..(MaxApproved + 1) :
          /\ Len(download_history) + Cardinality(Downloading) < MaxDownloads
          /\ download_begin(s, r)
    \/ \E s \in Sessions, ok \in BOOLEAN : download_copy(s, ok)
    \/ \E s \in Sessions, ok \in BOOLEAN : download_update(s, ok)
    \/ \E s \in Sessions, ok \in BOOLEAN : download_log(s, ok)

SpecAbort == InitStore /\ [][NextAbort]_vars

Rating == {s \in Sessions : pc[s] \in {"rate_input", "rate_log"}}

NextRate ==
    \/ Accounts
    \/ PlainUpload(MaxApproved)
    \/ \E s \in Sessions, r \in 1..(MaxApproved + 1) : approve_resource(s, r)
    \/ \E s \in Sessions, r \in 1..(MaxApproved + 1), why \in Reasons :
          reject_resource(s, r, why)
    \/ \E s \in Sessions : review_commit(s)
    \/ \E s \in Sessions, r \in 1..(MaxApproved + 1) :
          /\ Len(user_interactions) + Cardinality(Rating) < MaxReviews
          /\ rate_begin(s, r)
    \/ \E s \in Sessions, g \in RatingInputs, ok \in BOOLEAN :
          rate_submit(s, g, ok)
    \/ \E s \in Sessions, ok \in BOOLEAN : rate_log(s, ok)

SpecRate == InitStore /\ [][NextRate]_vars

\* the same, with rate_resource never running in two sessions at once
NextRateSeq ==
    \/ Accounts
    \/ PlainUpload(MaxApproved)
    \/ \E s \in Sessions, r \in 1..(MaxApproved + 1) : approve_resource(s, r)
    \/ \E s \in Sessions, r \in 1..(MaxApproved + 1), why \in Reasons :
          reject_resource(s, r, why)
    \/ \E s \in Sessions : review_commit(s)
    \/ \E s \in Sessions, r \in 1..(MaxApproved + 1) :
          /\ Len(user_interactions) + Cardinality(Rating) < MaxReviews
          /\ Rating = {}
          /\ rate_begin(s, r)
    \/ \E s \in Sessions, g \in RatingInputs, ok \in BOOLEAN :
          rate_submit(s, g, ok)
    \/ \E s \in Sessions, ok \in BOOLEAN : rate_log(s, ok)

SpecRateSeq == InitStore /\ [][NextRateSeq]_vars

\* sign-up, verification, upload, approval, one rating per resource, and
\* view_reviews, one user operation at a time
ALICE == <<"a", "l", "i", "c", "e">>

Reviewed(r) == \E i \in 1..Len(reviews) : reviews[i].resource_id = r

\* the admin works at console s1, alice and bob at console s2
AdminConsole ==
    \/ login("s1", ADMIN, ADMIN_PASSWORD)
    \/ logout("s1")
    \/ \E n \in {ALICE, BOB} : verify_user("s1", n)
    \/ \E r \in 1..MaxScenario : approve_resource("s1", r)
    \/ review_commit("s1")

UserConsole ==
    \/ \E n \in {ALICE, BOB} : signup("s2", n, SECRET, 1)
    \/ \E n \in {ALICE, BOB} : login("s2", n, SECRET)
    \/ logout("s2")
    \/ /\ next_upload < MaxScenario /\ user["s2"] = ALICE
       /\ upload_begin("s2", PHYSICS)
    \/ upload_insert_category("s2")
    \/ upload_path("s2", NotesPdf)
    \/ upload_copy("s2", TRUE)
    \/ upload_insert("s2", "1a2b3c4d", TRUE)
    \/ \E r \in 1..MaxScenario : ~Reviewed(r) /\ rate_begin("s2", r)
    \/ \E g \in {<<"int", 4>>, <<"int", 6>>}, ok \in BOOLEAN :
          rate_submit("s2", g, ok)
    \/ \E ok \in BOOLEAN : rate_log("s2", ok)
    \/ \E r \in 1..MaxScenario : view_reviews("s2", r)

NextScenario == AdminConsole \/ UserConsole

SpecScenario == InitStore /\ [][NextScenario]_vars

\* uploads that draw their share token, their approval, and access by token
SharedDownloads == SumSeq([i \in 1..Len(resources) |-> resources[i].download_count])

NextShare ==
    \/ AccountsOf({BOB})
    \/ \E s \in Sessions :
          /\ next_upload < MaxUploads
          /\ \A t \in Sessions : pc[t] = "menu"
          /\ upload_begin(s, PHYSICS)
    \/ \E s \in Sessions : upload_insert_category(s)
    \/ \E s \in Sessions : upload_path(s, NotesPdf)
    \/ \E s \in Sessions : upload_copy(s, TRUE)
    \/ \E s \in Sessions, l \in ShareLinks : upload_insert(s, l, TRUE)
    \/ \E s \in Sessions, r \in 1..MaxUploads : approve_resource(s, r)
    \/ \E s \in Sessions : review_commit(s)
    \/ \E s \in Sessions, l \in ShareLinks, answer \in {"y", "n"} :
          /\ SharedDownloads < MaxDownloads
          /\ access_shared_resource(s, l, answer)

SpecShare == InitStore /\ [][NextShare]_vars

\* download, rating and sharing with their interaction log; the admin works
\* at console s1, bob at console s2
NextLog ==
    \/ login("s1", ADMIN, ADMIN_PASSWORD)
    \/ logout("s1")
    \/ verify_user("s1", BOB)
    \/ \E r \in 1..(MaxLogs + 1) : approve_resource("s1", r)
    \/ review_commit("s1")
    \/ \E p \in PasswordInputs : signup("s2", BOB, p, 1)
    \/ login("s2", BOB, SECRET)
    \/ logout("s2")
    \/ next_upload < MaxLogs /\ upload_begin("s2", PHYSICS)
    \/ upload_insert_category("s2")
    \/ upload_path("s2", NotesPdf)
    \/ upload_copy("s2", TRUE)
    \/ upload_insert("s2", "1a2b3c4d", TRUE)
    \/ \E r \in 1..(MaxLogs + 1) :
          Len(download_history) < MaxLogs /\ download_begin("s2", r)
    \/ \E r \in 1..(MaxLogs + 1) :
          Len(reviews) < MaxLogs /\ rate_begin("s2", r)
    \/ \E r \in 1..(MaxLogs + 1), ok \in BOOLEAN :
          /\ Len(user_interactions) < MaxLogs /\ leaked["s2"] < MaxLogs
          /\ share_resource_link("s2", r, ok)
    \/ finalize_connections("s2")
    \/ \E ok \in BOOLEAN : download_copy("s2", ok)
    \/ \E ok \in BOOLEAN : download_update("s2", ok)
    \/ \E ok \in BOOLEAN : download_log("s2", ok)
    \/ \E g \in {<<"int", 4>>, <<"int", 0>>}, ok \in BOOLEAN :
          rate_submit("s2", g, ok)
    \/ \E ok \in BOOLEAN : rate_log("s2", ok)

SpecLog == InitStore /\ [][NextLog]_vars

\* uploads of files that have the same base name, one upload at a time
NextOverwrite ==
    \/ AccountsOf({BOB})
    \/ \E s \in Sessions :
          /\ next_upload < MaxUploads
          /\ \A t \in Sessions : pc[t] = "menu"
          /\ upload_begin(s, PHYSICS)
    \/ \E s \in Sessions : upload_insert_category(s)
    \/ \E s \in Sessions, f \in {NotesPdf, DeskNotesPdf, ClipMp4} :
          upload_path(s, f)
    \/ \E s \in Sessions, ok \in BOOLEAN : upload_copy(s, ok)
    \/ \E s \in Sessions : upload_insert(s, "1a2b3c4d", TRUE)

SpecOverwrite == InitStore /\ [][NextOverwrite]_vars

\* sign-ups at console s2 and the admin's verifications at console s1
BOB_CAPITAL == <<"B", "o", "b">>
BACK == <<"b", "a", "c", "k">>
HandleInputs == {BOB, BOB_CAPITAL, BACK, <<"b", "o">>}

NextVerify ==
    \/ \E p \in {SECRET, ADMIN_PASSWORD} : login("s1", ADMIN, p)
    \/ logout("s1")
    \/ \E n \in HandleInputs : verify_user("s1", n)
    \/ \E n \in HandleInputs, p \in PasswordInputs : signup("s2", n, p, 1)
    \/ \E n \in HandleInputs : login("s2", n, SECRET)
    \/ logout("s2")

SpecVerify == InitStore /\ [][NextVerify]_vars

\* uploads and the admin's category operations
NextCategories ==
    \/ AccountsOf({BOB})
    \/ \E s \in Sessions, c \in {PHYSICS, MATHS} : add_category(s, c)
    \/ \E s \in Sessions, c \in {PHYSICS, MATHS}, n \in {MATHS, <<>>} :
          edit_category(s, c, n)
    \/ \E s \in Sessions, c \in {PHYSICS, MATHS} :
          /\ next_upload < MaxApproved
          /\ upload_begin(s, c)
    \/ \E s \in Sessions : upload_insert_category(s)
    \/ \E s \in Sessions : upload_path(s, NotesPdf)
    \/ \E s \in Sessions : upload_copy(s, TRUE)
    \/ \E s \in Sessions : upload_insert(s, "1a2b3c4d", TRUE)

SpecCategories == InitStore /\ [][NextCategories]_vars

\* study groups, one group operation at a time
GroupCodes == {"A1B2C3", "D4E5F6"}
MaxMembersInputs == {<<"int", 0>>, <<"int", 1>>, <<"int", 2>>, <<"text", 0>>}

Alone(s) == \A t \in Sessions \ {s} : pc[t] = "menu"

NextGroups ==
    \/ AccountsOf({BOB, AMY})
    \/ \E s \in Sessions, m \in MaxMembersInputs, g \in GroupCodes :
          Alone(s) /\ create_study_group(s, m, g)
    \/ \E s \in Sessions, g \in GroupCodes \cup {"000000"} :
          Alone(s) /\ join_lookup(s, g)
    \/ \E s \in Sessions : join_check(s)

SpecGroups == InitStore /\ [][NextGroups]_vars

\* process starts and restarts on a store that does not exist at first
Salts == {1, 2}
FailPoints == {0, 1, 3, Len(SchemaObjects)}
ADMIN_CAPITAL == <<"A", "d", "m", "i", "n">>

NextBoot ==
    \/ \E s \in Sessions, f \in FailPoints, salt \in Salts :
          boot_runs < MaxBoots /\ init_db(s, f, salt)
    \/ \E s \in Sessions : exit_system(s)
    \/ \E s \in Sessions, n \in {BOB, ADMIN, ADMIN_CAPITAL, <<"a", "l">>},
          p \in PasswordInputs, salt \in Salts : signup(s, n, p, salt)
    \/ \E s \in Sessions, p \in {SECRET, ADMIN_PASSWORD} : login(s, ADMIN, p)
    \/ \E s \in Sessions : logout(s)
    \/ \E s \in Sessions : verify_user(s, BOB)

InitBoot == IdleConn /\ InitEmpty

SpecBoot == InitBoot /\ [][NextBoot]_vars

(***************************************************************************)
(* Claims about the connection manager                                     *)
(***************************************************************************)
\* 2 + 4 + ... + 2N
RECURSIVE Backoff(_)
Backoff(N) == IF N = 0 THEN 0 ELSE 2 * N + Backoff(N - 1)

\* the first n acquisition attempts each failed with "database is locked"
LockedPrefix(n) ==
    /\ Len(outcomes) >= n
    /\ \A i \in 1..n : outcomes[i] = "locked"

\* C1: for every N with 0 <= N < retries, when the first N acquisition
\* attempts fail with "database is locked" and attempt N+1 does not fail, the
\* caller is handed a handle on attempt N+1 and the backoff waited before it
\* is exactly 2+4+...+2N time-units.
C1_RetryThenHandOver ==
    \A N \in 0..(retries - 1) :
        (LockedPrefix(N) /\ Len(outcomes) > N /\ outcomes[N + 1] = "ok")
            => (Len(handed) = 1 /\ handed[1] = <<N + 1, Backoff(N)>>)

C1_Witness ==
    /\ cm_pc = "yielded"
    /\ LockedPrefix(3)
    /\ handed = << <<4, 12>> >>

\* C2: when max_retries consecutive attempts fail with "database is locked",
\* exactly max_retries attempts are made, no handle is handed out and the
\* caller gets the terminal store-locked error.
C2_ExhaustionUnavailable ==
    LockedPrefix(retries)
        => /\ Len(outcomes) = retries
           /\ handed = <<>>
           /\ cm_pc = "raised"
           /\ error = "locked"

C2_Witness ==
    /\ retries >= 3
    /\ LockedPrefix(retries)
    /\ cm_pc = "raised"

\* C3: every handle opened by get_db_connection is released exactly once on
\* every exit path: never twice, and once the acquisition has ended no
\* opened handle is left unreleased.
C3_ReleasedExactlyOnce ==
    \A h \in 1..Len(closes) :
        /\ closes[h] <= 1
        /\ (cm_pc \in {"returned", "raised"}) => closes[h] = 1

\* C12: with the default max_retries of 5, a fully exhausted 'locked'
\* acquisition has waited 2, 4, 6, 8 and 10 time-units in that order.
C12_DefaultBackoffTenUnits ==
    (retries = DefaultRetries /\ LockedPrefix(retries) /\ cm_pc = "raised")
        => slept = <<2, 4, 6, 8, 10>>

\* C12 as amended: with the default max_retries of 5 at most 5 attempts are
\* made, so at most 4 retries; the wait before retry number k is k x 2
\* time-units, and a fully exhausted acquisition has waited 2, 4, 6 and 8
\* time-units in that order (nothing is waited after the fifth failure).
C12_DefaultBackoffFourWaits ==
    retries = DefaultRetries
        => /\ Len(outcomes) <= DefaultRetries
           /\ Len(slept) <= DefaultRetries - 1
           /\ \A k \in 1..Len(slept) : slept[k] = k * 2
           /\ (LockedPrefix(retries) /\ cm_pc = "raised")
                  => slept = <<2, 4, 6, 8>>

C12_Witness ==
    /\ retries = DefaultRetries
    /\ LockedPrefix(DefaultRetries)
    /\ cm_pc = "raised"
    /\ error = "locked"
    /\ slept = <<2, 4, 6, 8>>

\* the block of the with-statement raised "database is locked" on the handle
\* it was given: either the manager slept again after the hand-over, or the
\* error came back out of the manager
LockedInBody ==
    /\ thrown
    /\ Len(handed) = 1
    /\ (SumSeq(slept) > handed[1][2] \/ error = "locked")

\* C13: a 'locked' failure of the caller's first operation on the handle is
\* retried like one at open, and the caller then observes a usable handle or
\* a store failure, never an error made by the connection manager itself.
C13_LockedInBodyRetried ==
    LockedInBody => error \in {"none"} \cup FailureKinds

\* C14: an acquisition attempt that fails with anything but 'locked' is the
\* last one: the failure reaches the caller, nothing is waited, and the
\* handle opened by that attempt (if any) is released.
C14_OtherFailuresPropagate ==
    /\ []((cm_pc = "raised" /\ ~thrown /\ error \in FailureKinds \ {"locked"})
             => /\ Len(outcomes) = attempt + 1
                /\ outcomes[Len(outcomes)] = error
                /\ Len(slept) = attempt
                /\ handed = <<>>)
    /\ [][(/\ Len(outcomes') = Len(outcomes) + 1
            /\ outcomes'[Len(outcomes')] \in FailureKinds \ {"locked"})
               => /\ cm_pc' = "raised"
                  /\ error' = outcomes'[Len(outcomes')]
                  /\ slept' = slept
                  /\ attempt' = attempt
                  /\ \A h \in (Len(closes) + 1)..Len(closes') :
                         closes'[h] = 1]_vars

\* the second attempt opened a handle and its PRAGMA failed with an
\* OperationalError that is not a lock
C14_Witness ==
    /\ cm_pc = "raised"
    /\ error = "operational"
    /\ outcomes = <<"locked", "operational">>
    /\ slept = <<2>>
    /\ Len(closes) = 2 /\ closes[2] = 1

(***************************************************************************)
(* Claims about upload, download and rating                                *)
(***************************************************************************)
\* C4: when upload_resource completes successfully for a category name that
\* did not exist in Phase A (so the upload inserted it), a Category with that
\* name exists in the store afterwards.
C4_NewCategoryPersisted ==
    [][\A s \in Sessions :
          (pc[s] = "up_insert" /\ result'[s] = "uploaded" /\ loc[s].created)
              => loc[s].cat \in categories']_vars

\* C5: an upload whose filesystem copy failed has no Resource row, in the
\* state where the copy failed and in every later state.
C5_NoRowAfterFailedCopy ==
    \A i \in 1..Len(resources) : resources[i].upload \notin copy_failed

C5_Witness ==
    /\ copy_failed # {}
    /\ Len(resources) >= 1
    /\ \E s \in Sessions : pc[s] = "menu" /\ result[s] = "copy_failed"

HistoryRows(resource_id) ==
    Cardinality({i \in 1..Len(download_history) :
                    download_history[i].resource_id = resource_id})

\* C6: every download whose three phases succeed raises the resource's
\* counter by exactly one and appends exactly one Download-History row for
\* (actor, resource), also when downloads of two sessions interleave: the
\* counter always equals the number of history rows of the resource.
C6_DownloadCountsOnce ==
    /\ [](\A r \in 1..Len(resources) :
             resources[r].download_count = HistoryRows(r))
    /\ [][\A s \in Sessions :
             (pc[s] = "dl_update" /\ pc'[s] = "dl_log")
                 => /\ resources'[loc[s].rid].download_count
                         = resources[loc[s].rid].download_count + 1
                    /\ download_history'
                         = Append(download_history,
                                  [user_id |-> user[s],
                                   resource_id |-> loc[s].rid])]_vars

\* a download that read counter 0 in Phase A has committed Phase C after
\* another session's download of the same resource did
C6_Witness ==
    \E s \in Sessions :
        /\ pc[s] = "dl_log"
        /\ loc[s].count = 0
        /\ resources[loc[s].rid].download_count = 2
        /\ Len(download_history) = 2

\* C7: with rate_resource running in one session at a time, once a Review
\* exists for (resource, reviewer) a further rate_resource by that reviewer
\* for that resource never reaches the rating prompt and adds no row: there
\* is never a second Review for the pair.
C7_SecondReviewRejected ==
    /\ [](\A i, j \in 1..Len(reviews) :
             (reviews[i].resource_id = reviews[j].resource_id
              /\ reviews[i].reviewer = reviews[j].reviewer) => i = j)
    /\ [][\A s \in Sessions :
             (pc[s] = "menu" /\ pc'[s] = "rate_input")
                 => ~already_rated(loc'[s].rid, user[s])]_vars

C7_Witness ==
    \E s \in Sessions :
        /\ result[s] = "already_rated"
        /\ Len(reviews) = 1
        /\ reviews[1].reviewer = user[s]

\* C8: a rating outside 1..5 (or one that is no number) is rejected before
\* any write: no Review row and no Interaction Log entry is created, and every
\* stored Review has a rating in 1..5.
C8_RatingValidated ==
    /\ [](\A i \in 1..Len(reviews) : reviews[i].rating \in 1..5)
    /\ [][\A s \in Sessions :
             (pc[s] = "rate_input"
              /\ result'[s] \in {"rating_out_of_range", "invalid_rating"})
                 => /\ reviews' = reviews
                    /\ user_interactions' = user_interactions
                    /\ pc'[s] = "menu"]_vars

C8_Witness ==
    \E s \in Sessions :
        /\ result[s] = "rating_out_of_range"
        /\ pc[s] = "menu"
        /\ reviews = <<>>

(***************************************************************************)
(* Claims about study groups and the bootstrap                             *)
(***************************************************************************)
\* C9: with one group operation at a time, the active member count of a
\* group (owner included) never exceeds its capacity, and a join_study_group
\* that finds the count at the capacity is rejected as "group full" and adds
\* no membership.
C9_CapacityRespected ==
    /\ [](\A g \in 1..Len(study_groups) :
             active_members(g) <= study_groups[g].max_members)
    /\ [][\A s \in Sessions :
             (/\ pc[s] = "join_check"
              /\ pc'[s] # "join_check"
              /\ active_members(loc[s].rid)
                    >= study_groups[loc[s].rid].max_members)
                 => /\ result'[s] = "group_full"
                    /\ group_members' = group_members]_vars

C9_Witness ==
    \E s \in Sessions, g \in 1..Len(study_groups) :
        /\ result[s] = "group_full"
        /\ study_groups[g].max_members = 2
        /\ active_members(g) = 2

AdminAccounts == {h \in DOMAIN users : users[h].role = "admin"}

\* C10: once init_db has run, every further run (with sign-ups in between)
\* leaves exactly one admin-role account, the one named admin, keeps its
\* stored credential, creates no table or index twice and leaves the rows of
\* the users table as they were.
C10_BootstrapIdempotent ==
    /\ [](boot_runs >= 1 =>
             /\ AdminAccounts = {ADMIN}
             /\ \A i, j \in 1..Len(schema) : schema[i] = schema[j] => i = j)
    /\ [][boot_runs >= 1 =>
             /\ users'[ADMIN].password = users[ADMIN].password
             /\ (boot_runs' > boot_runs =>
                    users' = users /\ schema' = schema)]_vars

\* every process has just re-run init_db, after a sign-up made by one of them
C10_Witness ==
    /\ boot_runs > Cardinality(Sessions)
    /\ \A s \in Sessions : result[s] = "initialized"
    /\ BOB \in DOMAIN users
    /\ ADMIN_CAPITAL \in DOMAIN users

(***************************************************************************)
(* Claims about the end-to-end review flow                                 *)
(***************************************************************************)
\* C11: after sign-up of alice, her verification by the admin, her upload of
\* a resource, its approval and one rate_resource of it by a verified user
\* with rating 4, a view_reviews of that resource returns exactly one row and
\* its rating is 4.
C11_EndToEndReviewVisible ==
    \A s \in Sessions :
        (/\ result[s] \in {"reviews_shown", "no_reviews"}
         /\ \E i \in 1..loc[s].count : reviews[i].resource_id = loc[s].rid)
            => /\ result[s] = "reviews_shown"
               /\ Len(loc[s].rows) = 1
               /\ loc[s].rows[1].rating = 4

\* alice, signed up and verified, uploaded resource 1 in a category that did
\* not exist; it was approved and rated, and view_reviews showed the row
C11_Witness ==
    \E s \in Sessions :
        /\ result[s] = "reviews_shown"
        /\ loc[s].rid = 1
        /\ loc[s].rows = << [resource_id |-> 1, reviewer |-> BOB, rating |-> 4] >>
        /\ resources[1].uploaded_by = ALICE
        /\ resources[1].status = "approved"
        /\ categories = {}
        /\ users[ALICE].is_verified /\ users[BOB].is_verified

\* C15: after any sequence of successful uploads the share tokens of all
\* Resource rows are pairwise distinct, so a share token identifies at most
\* one resource in access_shared_resource.
C15_ShareTokensDistinct ==
    /\ \A i, j \in 1..Len(resources) :
          resources[i].share_link = resources[j].share_link => i = j
    /\ \A l \in ShareLinks : Cardinality(shared_matches(l)) <= 1

\* s leaves download_resource in Phase A (no approved resource with that id)
\* or in Phase B (source file gone, copy failed)
DownloadAborts(s) ==
    \/ pc[s] = "dl_copy" /\ pc'[s] = "menu"
    \/ /\ pc[s] = "menu" /\ pc' = pc /\ menu[s] = "user"
       /\ result'[s] = "not_found_or_not_approved"
       /\ result[s] # "not_found_or_not_approved"

\* C16: a download_resource that aborts in Phase A or Phase B leaves the
\* download counters, the Download-History and the Interaction Log as they
\* were; a counter is only ever raised for a file that was delivered.
C16_AbortedDownloadFrame ==
    /\ [](\A r \in 1..Len(resources) :
             resources[r].download_count > 0
                 => resources[r].file_path \in delivered)
    /\ [][(\E s \in Sessions : DownloadAborts(s))
             => /\ resources' = resources
                /\ download_history' = download_history
                /\ user_interactions' = user_interactions]_vars

\* one download was counted, then the stored file vanished and the next
\* download stopped in Phase B
C16_Witness ==
    \E s \in Sessions :
        /\ result[s] = "source_missing"
        /\ pc[s] = "menu"
        /\ Len(download_history) = 1
        /\ resources[1].download_count = 1

\* C17: when Phase C fails after Phase B succeeded nothing is compensated
\* or retried. download_resource: the delivered file stays, the counter, the
\* Download-History and the Interaction Log are unchanged and the outcome is
\* the statistics warning. upload_resource: the copied file stays in its
\* destination root and no Resource row exists for the upload.
C17_PhaseCFailureKeepsArtifact ==
    [][\A s \in Sessions :
          /\ (pc[s] = "dl_update" /\ pc'[s] = "menu")
                => /\ result'[s] = "statistics_warning"
                   /\ loc[s].dest \in delivered
                   /\ delivered' = delivered
                   /\ resources' = resources
                   /\ download_history' = download_history
                   /\ user_interactions' = user_interactions
          /\ (pc[s] = "up_insert" /\ result'[s] = "db_error")
                => /\ pc'[s] = "menu"
                   /\ files' = files
                   /\ resources' = resources
                   /\ \A i \in 1..Len(resources') :
                          resources'[i].upload # loc[s].up]_vars

\* the file was delivered, Phase C failed, and nothing was counted
C17_Witness ==
    \E s \in Sessions :
        /\ result[s] = "statistics_warning"
        /\ pc[s] = "menu"
        /\ resources[1].file_path \in delivered
        /\ resources[1].download_count = 0
        /\ download_history = <<>>
        /\ user_interactions = <<>>

\* the fact an Interaction Log row of type download or rate stands for
LoggedFact(row) ==
    IF row.interaction_type = "download"
    THEN \E i \in 1..Len(download_history) :
            /\ download_history[i].user_id = row.user_id
            /\ download_history[i].resource_id = row.resource_id
    ELSE IF row.interaction_type = "rate"
    THEN \E i \in 1..Len(reviews) :
            /\ reviews[i].reviewer = row.user_id
            /\ reviews[i].resource_id = row.resource_id
            /\ reviews[i].rating = row.interaction_value
    ELSE row.resource_id \in 1..Len(resources)

\* C18: an interaction is logged only after the primary action of
\* download_resource, rate_resource or share_resource_link has succeeded
\* (for download and rate: after its commit); whether log_interaction
\* succeeds or fails, the committed counter, Download-History row and Review
\* row stay and the operation completes, with a warning at most.
C18_LoggingBestEffort ==
    /\ [](\A i \in 1..Len(user_interactions) : LoggedFact(user_interactions[i]))
    /\ [][\A s \in Sessions :
             /\ (pc[s] = "dl_log" /\ pc'[s] # "dl_log")
                   => /\ pc'[s] = "menu"
                      /\ result'[s] \in {"downloaded", "downloaded_log_warning"}
                      /\ resources' = resources
                      /\ download_history' = download_history
                      /\ (user_interactions' = user_interactions
                              <=> result'[s] = "downloaded_log_warning")
             /\ (pc[s] = "rate_log" /\ pc'[s] # "rate_log")
                   => /\ pc'[s] = "menu"
                      /\ result'[s] \in {"rated", "rated_log_warning"}
                      /\ reviews' = reviews
                      /\ (user_interactions' = user_interactions
                              <=> result'[s] = "rated_log_warning")]_vars

\* log_interaction failed after the download was counted and after the
\* review was stored
C18_Witness ==
    \E s \in Sessions :
        /\ result[s] = "rated_log_warning"
        /\ pc[s] = "menu"
        /\ user_interactions = <<>>
        /\ Len(download_history) = 1
        /\ resources[1].download_count = 1
        /\ Len(reviews) = 1

(***************************************************************************)
(* Claims about accounts and resource status                               *)
(***************************************************************************)
\* C19: after any sequence of sign-ups and bootstrap runs no two accounts
\* have handles that are equal when letter case is ignored.
C19_HandlesCaseInsensitiveUnique ==
    \A h, k \in DOMAIN users : lower(h) = lower(k) => h = k

\* C20: every Resource is created in status pending and its status changes
\* at most once, from pending to approved or rejected; once approved or
\* rejected it never changes again, also when the approve and the reject of
\* two admin sessions interleave.
C20_StatusChangesOnce ==
    [][/\ Len(resources') >= Len(resources)
       /\ \A r \in 1..Len(resources') :
             IF r > Len(resources)
             THEN resources'[r].status = "pending"
             ELSE resources'[r].status # resources[r].status
                     => /\ resources[r].status = "pending"
                        /\ resources'[r].status \in {"approved", "rejected"}]_vars

(***************************************************************************)
(* Claims about verification, the menu loops and the handles               *)
(***************************************************************************)
\* C21: an account created by sign-up is unverified with role user; its
\* verification flag becomes set only through the admin's verify_user; and
\* login never returns a role for an account whose flag is not set, whatever
\* password is supplied.
C21_UnverifiedNeverLogsIn ==
    /\ [](\A h \in DOMAIN users :
             ~users[h].is_verified
                 => \A s \in Sessions, p \in PasswordInputs \cup {ADMIN_PASSWORD} :
                        validate_user(s, h, p) = "None")
    /\ [][/\ \A h \in DOMAIN users' \ DOMAIN users :
                boot_runs' = boot_runs
                    => ~users'[h].is_verified /\ users'[h].role = "user"
          /\ \A h \in DOMAIN users :
                (~users[h].is_verified /\ users'[h].is_verified)
                    => \E s \in Sessions :
                          /\ menu[s] = "admin" /\ pc[s] = "menu"
                          /\ result'[s] = "verified"
          /\ \A s \in Sessions :
                (menu[s] = "main" /\ menu'[s] # "main")
                    => /\ user'[s] \in DOMAIN users
                       /\ users[user'[s]].is_verified
                       /\ menu'[s] = users[user'[s]].role]_vars

\* bob signed up with the password he logs in with, the admin is logged in
\* and has not verified him, and bob's login has failed
C21_Witness ==
    \E s, t \in Sessions :
        /\ result[s] = "login_failed" /\ menu[s] = "main"
        /\ menu[t] = "admin"
        /\ DOMAIN users = {ADMIN, BOB}
        /\ ~users[BOB].is_verified
        /\ checkpw(SECRET, users[BOB].password)

\* C22: after a successful bootstrap a failure inside a menu operation is
\* reported and control returns to the enclosing menu loop: a running process
\* stays running or ends by the Exit choice with code 0, and exit code 1
\* occurs only where init_db failed.
C22_MenuFailuresReturnToMenu ==
    [][\A s \in Sessions :
          process[s] = "running" => process'[s] \in {"running", "exit0"}]_vars

\* C23: when init_db fails the process ends with exit code 1 and never
\* reaches the main menu: the failed run leaves the rows of the store as they
\* were, and the process serves no sign-up, login or other request (its next
\* step, if any, is the init_db of a new start).
C23_BootstrapFailureFatal ==
    /\ [](\A s \in Sessions :
             result[s] = "init_failed"
                 => process[s] = "exit1" /\ menu[s] = "main" /\ user[s] = NoUser)
    /\ [][/\ \A s \in Sessions :
                /\ (result[s] # "init_failed" /\ result'[s] = "init_failed")
                      => /\ process[s] # "running"
                         /\ process'[s] = "exit1"
                         /\ users' = users
                         /\ boot_runs' = boot_runs
                /\ (process[s] = "exit1" /\ process'[s] = "exit1")
                      => menu'[s] = menu[s] /\ user'[s] = user[s]
                /\ (result[s] = "init_failed" /\ result'[s] # "init_failed")
                      => /\ result'[s] = "initialized"
                         /\ boot_runs' = boot_runs + 1
          /\ (users' # users \/ boot_runs' # boot_runs)
                => \E t \in Sessions :
                      /\ process'[t] = "running"
                      /\ result'[t] \in {"initialized", "registered", "verified"}]_vars

\* the first start on a new store failed at its third schema statement
C23_Witness ==
    \E s \in Sessions :
        /\ result[s] = "init_failed"
        /\ process[s] = "exit1"
        /\ Len(schema) = 2
        /\ users = << >>

\* s checks that a file exists: line 33 of upload_resource, line 251 of
\* download_resource
ExistenceCheck(s) ==
    \/ pc[s] = "up_path" /\ pc'[s] # "up_path"
    \/ pc[s] = "dl_copy" /\ pc'[s] # "dl_copy"

\* s runs the copy of Phase B
FileCopy(s) == pc[s] \in {"up_copy", "dl_copy"} /\ pc'[s] # pc[s]

\* C24: in upload_resource and download_resource no store handle is open
\* while the existence check and the file copy of Phase B run.
C24_NoHandleInPhaseB ==
    [][\A s \in Sessions :
          (ExistenceCheck(s) \/ FileCopy(s)) => ~loc[s].conn]_vars

\* C24 as amended: no store handle is open while the file copy runs, in
\* upload_resource and in download_resource, nor while download_resource
\* checks that the source exists: the Phase A handle is closed before and
\* the Phase C handle is opened only after the copy. The existence check of
\* upload_resource runs while the Phase A handle is still open.
C24_NoHandleDuringCopy ==
    /\ [](\A s \in Sessions :
             /\ pc[s] \in {"up_copy", "dl_copy"}
                   => ~loc[s].conn /\ ~loc[s].pending
             /\ pc[s] = "up_path" => loc[s].conn)
    /\ [][\A s \in Sessions :
             FileCopy(s)
                 => /\ ~loc[s].conn /\ ~loc'[s].conn
                    /\ pc'[s] \in {"up_insert", "dl_update", "menu"}]_vars

\* both copies have run: the upload's into resources/, the download's out
C24_Witness ==
    \E s \in Sessions :
        /\ pc[s] = "dl_update"
        /\ ~loc[s].conn
        /\ loc[s].dest \in delivered
        /\ Len(resources) = 1
        /\ resources[1].file_path \in DOMAIN files

\* s waits for console input: the colour and file path prompts of
\* upload_resource, the rating prompt of rate_resource, the menu choice
AtPrompt(s) == pc[s] \in {"menu", "up_color", "up_path", "rate_input"}

\* C25: no operation waits for console input while it holds an open
\* (uncommitted) write transaction on the store; in particular
\* upload_resource does not prompt after inserting a new category and before
\* committing or releasing the handle.
C25_NoPromptInsideWriteTransaction ==
    \A s \in Sessions : loc[s].pending => ~AtPrompt(s)

\* C26: every operation that opens a lightweight handle (create_study_group,
\* join_study_group, add_calendar_event, log_interaction,
\* create_notification) releases it on every exit path, also where one of
\* its store statements fails: no handle stays open after the operation has
\* ended.
C26_LightweightHandlesReleased ==
    \A s \in Sessions :
        (process[s] = "running" /\ pc[s] = "menu")
            => leaked[s] = 0 /\ ~loc[s].conn

\* C27: in every reachable state, also when two sessions of the same
\* reviewer interleave their rate_resource steps (duplicate check, then
\* insert) for the same resource, at most one Review exists per
\* (resource, reviewer) pair.
C27_OneReviewPerPairInterleaved ==
    \A i, j \in 1..Len(reviews) :
        (/\ reviews[i].resource_id = reviews[j].resource_id
         /\ reviews[i].reviewer = reviews[j].reviewer) => i = j

\* C28: after any sequence of uploads and admin category operations (add,
\* edit/rename, deactivate, activate) every Resource whose category reference
\* is non-null names a Category that exists in the store.
C28_CategoryReferencesResolve ==
    \A i \in 1..Len(resources) : resources[i].category_name \in categories

StoredPaths == {resources[i].file_path : i \in 1..Len(resources)}

\* C29: after any sequence of uploads distinct Resource rows have distinct
\* storage locations, and the stored file of an existing Resource is never
\* overwritten by a later upload (also not by one of a different file with
\* the same base name).
C29_StoredFilesNeverOverwritten ==
    /\ [](\A i, j \in 1..Len(resources) :
             resources[i].file_path = resources[j].file_path => i = j)
    /\ [][\A p \in StoredPaths :
             p \in DOMAIN files
                 => p \in DOMAIN files' /\ files'[p] = files[p]]_vars

\* the accounts whose verification flag this step sets
NewlyVerified == {h \in DOMAIN users : ~users[h].is_verified /\ users'[h].is_verified}

\* C30: every account that sign-up can create is verifiable (for each
\* unverified account some verify_user input reaches it, also for a handle
\* such as 'back'), and one verify_user sets the flag of exactly the account
\* whose handle was entered and of no other account (also not of one whose
\* handle differs only by letter case).
C30_EveryAccountVerifiableAlone ==
    /\ [](\A h \in DOMAIN users :
             ~users[h].is_verified
                 => \E n \in HandleInputs :
                       ~goes_back(strip(n)) /\ h \in nocase_matches(strip(n)))
    /\ [][Cardinality(NewlyVerified) <= 1]_vars

====
